---------------------------- MODULE Spec2Model ----------------------------
(***************************************************************************)
(* Model of the torchphysics tutorial material and its packaging workflow. *)
(*                                                                         *)
(* Part I  : the GitHub Actions workflow "Build and upload to PyPI"        *)
(*           (jobs build_wheels, build_sdist, upload_pypi).                *)
(* Part II : the residual functions of the PINN tutorial (h,               *)
(*           residual_pde_condition, residual_boundary_condition, ...),    *)
(*           the losses of its conditions and tp.spaces.Points.            *)
(* Part III: training with trainer.fit (DeepRitz conditions and samplers,  *)
(*           max_steps).                                                   *)
(* Part IV : domains and their operations (Domain Basics notebook).        *)
(***************************************************************************)
EXTENDS Integers, Sequences, FiniteSets, TLC

VARIABLES
    event,      \* the last repository event delivered to the workflow
    trigger,    \* the event that started the current run (NoEvent: no run yet)
    runId,      \* number of runs started so far; the current run's id
    job,        \* job name -> queued | in_progress | success | failure | skipped
    step,       \* job name -> number of steps of the job that have completed
    python,     \* job name -> interpreter installed by setup-python ("none")
    dist,       \* job name -> files in the job's dist directory
    store,      \* the artifact store: records [name, files, run]
    index,      \* files published to the package index
    cred,       \* the repository secret upload_pypi and the steps it was given to
    last,       \* the last call of a tutorial function: its inputs and output
    train       \* the training run of a notebook: trainer, conditions, samplers

wfvars == <<event, trigger, runId, job, step, python, dist, store, index, cred>>
vars == <<event, trigger, runId, job, step, python, dist, store, index, cred, last, train>>

(***************************************************************************)
(* Bounds of the model.                                                    *)
(***************************************************************************)
MaxRuns == 2
\* Times are multiples of 1/TDen, coordinates multiples of 1/XDen.
TDen == 2
XDen == 2
\* Rows of the tensors handed to h, and to the residual functions.
HPoints == 2
NRows == 1
\* Derivative values handed to residual_pde_condition lie in -MaxVal..MaxVal.
MaxVal == 2
\* Points a sampler hands to a condition when its loss is computed.
SRows == 2
\* Distinct point sets a random sampler can draw.
NPointSets == 2

(***************************************************************************)
(* Part I: the packaging workflow.                                         *)
(***************************************************************************)
NoEvent == [name |-> "none", action |-> "none"]

\* Events the repository can raise; only some of them start the workflow.
Events ==
    { [name |-> "workflow_dispatch", action |-> "none"],
      [name |-> "release", action |-> "published"],
      [name |-> "release", action |-> "created"],
      [name |-> "release", action |-> "edited"],
      [name |-> "push", action |-> "none"],
      [name |-> "pull_request", action |-> "opened"] }

\* on: workflow_dispatch / release: types: [published]
OnTypesOnlyRelease(e) ==
    \/ e.name = "workflow_dispatch"
    \/ e.name = "release"

OnMatches(e) ==
    \/ e.name = "workflow_dispatch"
    \/ e.name = "release" /\ e.action \in {"published"}

\* env: CIBW_BUILD: cp37-* cp38-* cp39-* cp310-*
CIBW_BUILD == {"cp37", "cp38", "cp39", "cp310"}

\* The cibuildwheel identifier of an interpreter version.
PyTag(v) ==
    CASE v = "3.7" -> "cp37"
      [] v = "3.8" -> "cp38"
      [] v = "3.9" -> "cp39"
      [] v = "3.10" -> "cp310"
      [] OTHER -> "none"

\* strategy: matrix: os: [ubuntu-latest]
MatrixOs == <<"ubuntu-latest">>

Jobs == {"build_wheels", "build_sdist", "upload_pypi"}
BuildJobs == {"build_wheels", "build_sdist"}

\* needs: [build_wheels, build_sdist]
UploadNeedsSdistOnly == {"build_sdist"}

UploadNeeds == {"build_wheels", "build_sdist"}

NumSteps(j) == IF j = "upload_pypi" THEN 3 ELSE 5

Concluded(j) == job[j] \in {"success", "failure", "skipped"}

RunConcluded == \A j \in Jobs : Concluded(j)

\* name: artifact-wheel-${{ matrix.os }}
WheelArtifactNameNoOs(os) == "artifact-wheel"

WheelArtifactName(os) == "artifact-wheel-" \o os

\* name: artifact-sdist
SdistArtifactName == "artifact-sdist"

\* The names upload_pypi downloads, in step order.
DownloadNames == <<"artifact-sdist", "artifact-wheel-ubuntu-latest">>

\* if: github.event_name == 'release' && github.event.action == 'published'
UploadIfAlways(e) == TRUE

UploadIf(e) == e.name = "release" /\ e.action = "published"

\* A job with needs and an if without a status function runs only when every
\* needed job succeeded (the implicit success()) and the condition holds.
UploadRuns ==
    /\ \A n \in UploadNeeds : job[n] = "success"
    /\ UploadIf(trigger)

\* Values the repository secret upload_pypi may hold; a secret that was
\* never stored evaluates to the empty string.
Credentials == {"token_a", "token_b"}

NoCredential == ""

\* The secrets a step refers to in its with/env/run entries.  Only the
\* publish step does: password: ${{ secrets.upload_pypi }}; the workflow's
\* env block and all other steps name none.
StepSecretsBuildToo(j, s) ==
    IF s = NumSteps(j) - 1 + (IF j = "upload_pypi" THEN 1 ELSE 0)
    THEN {"upload_pypi"} ELSE {}

StepSecrets(j, s) ==
    IF j = "upload_pypi" /\ s = NumSteps(j) THEN {"upload_pypi"} ELSE {}

\* Step s of job j starts: the runner evaluates the expressions of the step
\* and hands it the values, among them those of the secrets it names.
Receive(j, s) ==
    cred' = [cred EXCEPT !.reads = @ \cup
                {[run |-> runId, job |-> j, step |-> s, secret |-> n, value |-> cred.value] :
                     n \in StepSecrets(j, s)}]

WfInit ==
    /\ cred = [value |-> NoCredential, reads |-> {}]
    /\ event = NoEvent
    /\ trigger = NoEvent
    /\ runId = 0
    /\ job = [j \in Jobs |-> "skipped"]
    /\ step = [j \in Jobs |-> 0]
    /\ python = [j \in Jobs |-> "none"]
    /\ dist = [j \in Jobs |-> {}]
    /\ store = {}
    /\ index = {}

\* An event reaches the repository.  It starts a run exactly when the
\* workflow's "on" section matches; each run gets fresh runners.
Deliver(e) ==
    /\ runId = 0 \/ RunConcluded
    /\ event' = e
    /\ IF OnMatches(e)
       THEN /\ runId < MaxRuns
            /\ trigger' = e
            /\ runId' = runId + 1
            /\ job' = [j \in Jobs |-> IF j \in BuildJobs THEN "in_progress" ELSE "queued"]
            /\ step' = [j \in Jobs |-> 0]
            /\ python' = [j \in Jobs |-> "none"]
            /\ dist' = [j \in Jobs |-> {}]
       ELSE UNCHANGED <<trigger, runId, job, step, python, dist>>
    /\ UNCHANGED <<store, index, cred, last, train>>

\* The repository's owner stores the secret, or replaces it, between runs.
StoreSecret(v) ==
    /\ runId = 0 \/ RunConcluded
    /\ cred.value # v
    /\ cred' = [cred EXCEPT !.value = v]
    /\ UNCHANGED <<event, trigger, runId, job, step, python, dist, store, index, last, train>>

\* A step of job j is next: the job runs and s-1 steps have completed.
AtStep(j, s) == job[j] = "in_progress" /\ step[j] = s - 1

\* Completing step s of job j; the job succeeds with its last step.
Advance(j, s) ==
    /\ step' = [step EXCEPT ![j] = s]
    /\ job' = [job EXCEPT ![j] = IF s = NumSteps(j) THEN "success" ELSE @]
    /\ Receive(j, s)

\* actions/checkout@v4 (both build jobs)
Checkout(j) ==
    /\ j \in BuildJobs
    /\ AtStep(j, 1)
    /\ Advance(j, 1)
    /\ UNCHANGED <<event, trigger, runId, python, dist, store, index, last, train>>

\* actions/setup-python@v5 with python-version: '3.10' (both build jobs)
SetupPython(j) ==
    /\ j \in BuildJobs
    /\ AtStep(j, 2)
    /\ Advance(j, 2)
    /\ python' = [python EXCEPT ![j] = "3.10"]
    /\ UNCHANGED <<event, trigger, runId, dist, store, index, last, train>>

\* pip install -U setuptools setuptools_scm wheel (both build jobs; the
\* cibuildwheel install of build_wheels is commented out)
InstallTools(j) ==
    /\ j \in BuildJobs
    /\ AtStep(j, 3)
    /\ Advance(j, 3)
    /\ UNCHANGED <<event, trigger, runId, python, dist, store, index, last, train>>

\* Build wheels: python setup.py bdist_wheel -- one wheel, built by the
\* interpreter setup-python installed (cibuildwheel is commented out).
BuildWheels ==
    /\ AtStep("build_wheels", 4)
    /\ Advance("build_wheels", 4)
    /\ dist' = [dist EXCEPT !["build_wheels"] =
                  @ \cup {[kind |-> "wheel", tag |-> PyTag(python["build_wheels"]),
                           run |-> runId]}]
    /\ UNCHANGED <<event, trigger, runId, python, store, index, last, train>>

\* Build sdist: python setup.py sdist
BuildSdist ==
    /\ AtStep("build_sdist", 4)
    /\ Advance("build_sdist", 4)
    /\ dist' = [dist EXCEPT !["build_sdist"] =
                  @ \cup {[kind |-> "sdist", tag |-> "source", run |-> runId]}]
    /\ UNCHANGED <<event, trigger, runId, python, store, index, last, train>>

\* actions/upload-artifact@v4: the files matching the path glob, under name.
UploadArtifact(j, name, kind) ==
    /\ AtStep(j, 5)
    /\ Advance(j, 5)
    /\ store' = store \cup
         {[name |-> name, files |-> {f \in dist[j] : f.kind = kind}, run |-> runId]}
    /\ UNCHANGED <<event, trigger, runId, python, dist, index, last, train>>

\* build_wheels: name: artifact-wheel-${{ matrix.os }}, path: ./dist/*.whl
UploadWheels == UploadArtifact("build_wheels", WheelArtifactName(MatrixOs[1]), "wheel")

\* build_sdist: name: artifact-sdist, path: dist/*.tar.gz
UploadSdist == UploadArtifact("build_sdist", SdistArtifactName, "sdist")

\* Any step of a running build job may fail; the job then ends in failure.
StepFails(j) ==
    /\ j \in BuildJobs
    /\ job[j] = "in_progress"
    /\ job' = [job EXCEPT ![j] = "failure"]
    /\ Receive(j, step[j] + 1)
    /\ UNCHANGED <<event, trigger, runId, step, python, dist, store, index, last, train>>

\* upload_pypi is scheduled once every needed job has concluded.
UploadEvaluate ==
    /\ job["upload_pypi"] = "queued"
    /\ \A n \in UploadNeeds : Concluded(n)
    /\ job' = [job EXCEPT !["upload_pypi"] =
                 IF UploadRuns THEN "in_progress" ELSE "skipped"]
    /\ UNCHANGED <<event, trigger, runId, step, python, dist, store, index, cred, last, train>>

\* Artifacts of the given run with the given name.
ArtifactsAnyRun(name, r) == {a \in store : a.name = name}

Artifacts(name, r) == {a \in store : a.name = name /\ a.run = r}

\* actions/download-artifact@v4 with name and path: dist -- step s of
\* upload_pypi.  It fails when the run has no artifact of that name.
Download(s) ==
    /\ s \in 1..2
    /\ AtStep("upload_pypi", s)
    /\ IF Artifacts(DownloadNames[s], runId) = {}
       THEN /\ job' = [job EXCEPT !["upload_pypi"] = "failure"]
            /\ Receive("upload_pypi", s)
            /\ UNCHANGED <<step, dist>>
       ELSE /\ Advance("upload_pypi", s)
            /\ dist' = [dist EXCEPT !["upload_pypi"] =
                          @ \cup UNION {a.files : a \in Artifacts(DownloadNames[s], runId)}]
    /\ UNCHANGED <<event, trigger, runId, python, store, index, last, train>>

\* pypa/gh-action-pypi-publish: everything in dist goes to the index.
Publish ==
    /\ AtStep("upload_pypi", 3)
    /\ Advance("upload_pypi", 3)
    /\ index' = index \cup dist["upload_pypi"]
    /\ UNCHANGED <<event, trigger, runId, python, dist, store, last, train>>

BuildWheelsStep ==
    \/ Checkout("build_wheels")
    \/ SetupPython("build_wheels")
    \/ InstallTools("build_wheels")
    \/ BuildWheels
    \/ UploadWheels

BuildSdistStep ==
    \/ Checkout("build_sdist")
    \/ SetupPython("build_sdist")
    \/ InstallTools("build_sdist")
    \/ BuildSdist
    \/ UploadSdist

UploadPypiStep ==
    \/ UploadEvaluate
    \/ \E s \in 1..2 : Download(s)
    \/ Publish

WfNext ==
    \/ \E e \in Events : Deliver(e)
    \/ \E v \in Credentials : StoreSecret(v)
    \/ BuildWheelsStep
    \/ BuildSdistStep
    \/ \E j \in BuildJobs : StepFails(j)
    \/ UploadPypiStep

\* A datum of the training loop: the point set it was computed from and the
\* fit and training step in which those points were sampled.
NoData == [set |-> 0, step |-> 0, fit |-> "none"]

\* No notebook has started training.
TrainInit ==
    [fit |-> "none", status |-> "idle", global_step |-> 0, evals |-> 0, cond |-> 1,
     act |-> 0,
     sampler |-> <<>>, points |-> NoData, evaluated |-> NoData, residual |-> NoData,
     loss |-> NoData, passed |-> <<>>, first |-> <<>>]

Init ==
    /\ WfInit
    /\ last = [fn |-> "none"]
    /\ train = TrainInit

Spec == Init /\ [][WfNext]_vars

\* The runner eventually schedules every step that is ready to run.
FairSpec ==
    /\ Spec
    /\ WF_vars(BuildWheelsStep)
    /\ WF_vars(BuildSdistStep)
    /\ WF_vars(UploadPypiStep)

(***************************************************************************)
(* Part II: the functions of the PINN tutorial.  A tensor of n rows is a   *)
(* sequence of length n.  Times are integers k meaning k/TDen, coordinates *)
(* integers meaning k/XDen, temperatures integers meaning k/HDen.          *)
(***************************************************************************)
u_0 == 16
u_heater_max == 40
t_heater_max == 5

\* I = Interval(T, lower_bound=0, upper_bound=20)
I_upper == 20

\* Omega = Parallelogram(X, origin=[0,0], corner_1=[5,0], corner_2=[0,4])
Omega_width == 5
Omega_height == 4

\* Temperatures are multiples of 1/HDen, which makes the slope of h,
\* (u_heater_max - u_0) / t_heater_max per unit of time, an integer per tick.
HDen == t_heater_max * TDen

Tensors(S, n) == [1..n -> S]

\* ht = u_0 + (u_heater_max - u_0) / t_heater_max * t
HLinear(t) == [i \in DOMAIN t |-> u_0 * HDen + (u_heater_max - u_0) * t[i]]

\* ht[t > t_heater_max] = u_heater_max
HClamp(ht, t) ==
    [i \in DOMAIN ht |-> IF t[i] > t_heater_max * TDen THEN u_heater_max * HDen ELSE ht[i]]

hNoClamp(t) == HLinear(t)

h(t) == HClamp(HLinear(t), t)

\* def residual_pde_condition(u, x, t): laplacian(u, x) - grad(u, t), the
\* values of the two differential operators at the rows being given.
residual_pde_sum(u, lap, ut) == [i \in DOMAIN u |-> lap[i] + ut[i]]

residual_pde_as_R1(u, lap, ut) == [i \in DOMAIN u |-> u[i] - lap[i]]

residual_pde_condition(u, lap, ut) == [i \in DOMAIN u |-> lap[i] - ut[i]]

\* def residual_initial_condition(u): u - u_0
residual_initial_condition(u) == [i \in DOMAIN u |-> u[i] - u_0 * HDen]

\* def residual_dirichlet_condition(u, t): u - h(t)
residual_dirichlet_condition(u, t) == [i \in DOMAIN u |-> u[i] - h(t)[i]]

\* def residual_neumann_condition(u, x): the normal derivative of u at x,
\* as tp.utils.normal_derivative returns it (dn).
residual_neumann_condition(dn) == dn

\* heater_location = (x[:, 0] >= 1) & (x[:, 0] <= 3) & (x[:, 1] >= 3.99)
heater_location_no_x1(x) ==
    [i \in DOMAIN x |-> x[i][1] >= 1 * XDen /\ x[i][1] <= 3 * XDen]

heater_location(x) ==
    [i \in DOMAIN x |->
        /\ x[i][1] >= 1 * XDen
        /\ x[i][1] <= 3 * XDen
        /\ 100 * x[i][2] >= 399 * XDen]

\* residual = neumann everywhere; residual[heater_location] = residual_h[heater_location]
residual_boundary_condition(u, x, t, dn) ==
    LET residual == residual_neumann_condition(dn)
        residual_h == residual_dirichlet_condition(u, t)
    IN  [i \in DOMAIN u |-> IF heater_location(x)[i] THEN residual_h[i] ELSE residual[i]]

\* Sample points.
Times == 0..(I_upper * TDen)

\* The points of the grid on the boundary of Omega.
OmegaBoundary ==
    {p \in (0..(Omega_width * XDen)) \X (0..(Omega_height * XDen)) :
        \/ p[1] \in {0, Omega_width * XDen}
        \/ p[2] \in {0, Omega_height * XDen}}

\* Times sampled for the boundary condition: start, heater maximum, end.
BoundaryTimes == {0, t_heater_max * TDen, I_upper * TDen}

\* Network outputs and normal derivatives tried at boundary points.
UValues == {u_0 * HDen, u_heater_max * HDen}
DnValues == {-1, 0}

Values == (-MaxVal)..MaxVal

\* No tutorial function has been called yet in this session.
Idle == last.fn = "none"

\* h(t) for a tensor of times.
CallH ==
    /\ Idle
    /\ \E t \in Tensors(Times, HPoints) :
          last' = [fn |-> "h", t |-> t, out |-> h(t)]
    /\ UNCHANGED <<wfvars, train>>

\* residual_pde_condition(u, x, t) at rows where laplacian(u, x) = lap and
\* grad(u, t) = ut.
CallResidualPde ==
    /\ Idle
    /\ \E u \in Tensors(Values, NRows), lap \in Tensors(Values, NRows),
          ut \in Tensors(Values, NRows) :
          last' = [fn |-> "residual_pde_condition", u |-> u, lap |-> lap, ut |-> ut,
                   out |-> residual_pde_condition(u, lap, ut)]
    /\ UNCHANGED <<wfvars, train>>

\* residual_boundary_condition(u, x, t) at points sampled on the boundary
\* of Omega, the normal derivative of u there being dn.
CallResidualBoundary ==
    /\ Idle
    /\ \E x \in Tensors(OmegaBoundary, NRows), t \in Tensors(BoundaryTimes, NRows),
          u \in Tensors(UValues, NRows), dn \in Tensors(DnValues, NRows) :
          last' = [fn |-> "residual_boundary_condition", u |-> u, x |-> x, t |-> t,
                   dn |-> dn, mask |-> heater_location(x),
                   out |-> residual_boundary_condition(u, x, t, dn)]
    /\ UNCHANGED <<wfvars, train>>

\* The loss of a PINNCondition: the sum of the squared residuals over the
\* sampled points (the squared l_2-norm of Step 5).
RECURSIVE SumSquares(_)
SumSquares(r) == IF r = <<>> THEN 0 ELSE r[1] * r[1] + SumSquares(Tail(r))

PINNConditionLoss(residual) == SumSquares(residual)

\* Values of u, laplacian(u, x) and grad(u, t) tried when a loss is computed.
LossValues == {-1, 0, 1}

\* Boundary samples tried when a loss is computed: both ends of the heater,
\* a top corner, a point of the bottom edge below the heater, a point of the
\* right edge.
LossBoundaryPoints ==
    { <<1 * XDen, Omega_height * XDen>>, <<3 * XDen, Omega_height * XDen>>,
      <<0, Omega_height * XDen>>, <<2 * XDen, 0>>, <<Omega_width * XDen, 2 * XDen>> }

LossBoundaryTimes == {0, I_upper * TDen}

\* pde_condition = PINNCondition(model, sampler_pde_condition, residual_pde_condition)
CallPdeConditionLoss ==
    /\ Idle
    /\ \E u \in Tensors(LossValues, SRows), lap \in Tensors(LossValues, SRows),
          ut \in Tensors(LossValues, SRows) :
          last' = [fn |-> "pde_condition", u |-> u, lap |-> lap, ut |-> ut,
                   loss |-> PINNConditionLoss(residual_pde_condition(u, lap, ut))]
    /\ UNCHANGED <<wfvars, train>>

\* initial_condition = PINNCondition(model, sampler_initial_condition,
\* residual_initial_condition)
CallInitialConditionLoss ==
    /\ Idle
    /\ \E u \in Tensors(UValues \cup {u_0 * HDen + 1}, SRows) :
          last' = [fn |-> "initial_condition", u |-> u,
                   loss |-> PINNConditionLoss(residual_initial_condition(u))]
    /\ UNCHANGED <<wfvars, train>>

\* boundary_condition = PINNCondition(model, sampler_boundary_condition,
\* residual_boundary_condition)
CallBoundaryConditionLoss ==
    /\ Idle
    /\ \E x \in Tensors(LossBoundaryPoints, SRows), t \in Tensors(LossBoundaryTimes, SRows),
          u \in Tensors(UValues, SRows), dn \in Tensors(DnValues, SRows) :
          last' = [fn |-> "boundary_condition", u |-> u, x |-> x, t |-> t, dn |-> dn,
                   loss |-> PINNConditionLoss(residual_boundary_condition(u, x, t, dn))]
    /\ UNCHANGED <<wfvars, train>>

\* Spaces: a space is the sequence of its variables, each with its
\* dimension; the product of two spaces lists the variables of the first
\* and then those of the second.
R1(variable_name) == << [name |-> variable_name, dim |-> 1] >>

R2(variable_name) == << [name |-> variable_name, dim |-> 2] >>

SpaceProduct(S1, S2) == S1 \o S2

\* X = tp.spaces.R2(variable_name='x'); T = tp.spaces.R1('t')
X == R2("x")

T == R1("t")

\* x_coords = torch.linspace(0, 5, 100), y_coords = torch.linspace(0, 4, 80),
\* t_coords = torch.linspace(6, 6, 1)
GridNX == 100
GridNY == 80
GridNT == 1
EvalTime == 6

\* Grid coordinates are kept in units of 1/GridDen, in which every
\* coordinate of the three linspaces is an integer.
GridDen == (GridNX - 1) * (GridNY - 1)

\* torch.linspace(start, end, steps): steps values from start to end, evenly
\* spaced; one step gives start.
Linspace(start, end, steps) ==
    [i \in 1..steps |->
        IF steps = 1 THEN start * GridDen
        ELSE start * GridDen + ((i - 1) * (end - start) * GridDen) \div (steps - 1)]

x_coords == Linspace(0, Omega_width, GridNX)

y_coords == Linspace(0, Omega_height, GridNY)

t_coords == Linspace(EvalTime, EvalTime, GridNT)

\* xs, ys, ts = torch.meshgrid([x_coords, y_coords, t_coords]), flattened:
\* row r of the flattened grid has the indices (i, j, k), the last one
\* running fastest.
GridRows == 1..(GridNX * GridNY * GridNT)

xs_flat == [r \in GridRows |-> x_coords[((r - 1) \div (GridNY * GridNT)) + 1]]

ys_flat == [r \in GridRows |-> y_coords[(((r - 1) \div GridNT) % GridNY) + 1]]

ts_flat == [r \in GridRows |-> t_coords[((r - 1) % GridNT) + 1]]

\* torch.stack(columns, dim=1): row r holds the r-th entry of every column.
Stack(columns) == [r \in GridRows |-> [c \in DOMAIN columns |-> columns[c][r]]]

\* tensors = torch.stack([xs.flatten(), ys.flatten(), ts.flatten()], dim=1)
tensors_time_first == Stack(<<ts_flat, xs_flat, ys_flat>>)

tensors == Stack(<<xs_flat, ys_flat, ts_flat>>)

\* The first column (counted from 0) of a variable in the rows of a space.
RECURSIVE ColumnOffset(_, _)
ColumnOffset(space, v) ==
    IF space = <<>> \/ space[1].name = v THEN 0
    ELSE space[1].dim + ColumnOffset(Tail(space), v)

RECURSIVE DimOf(_, _)
DimOf(space, v) ==
    IF space = <<>> THEN 0
    ELSE IF space[1].name = v THEN space[1].dim ELSE DimOf(Tail(space), v)

\* tp.spaces.Points(data, space): the columns of data are given to the
\* variables in the order of the space.
Points(data, space) ==
    [v \in {space[n].name : n \in DOMAIN space} |->
        [r \in DOMAIN data |->
            SubSeq(data[r], ColumnOffset(space, v) + 1,
                            ColumnOffset(space, v) + DimOf(space, v))]]

\* points = tp.spaces.Points(tensors, space=X*T), and the order the
\* notebook warns of.
PointSpaces == { SpaceProduct(X, T), SpaceProduct(T, X) }

CallPoints ==
    /\ Idle
    /\ \E space \in PointSpaces :
          last' = [fn |-> "Points", space |-> space, points |-> Points(tensors, space)]
    /\ UNCHANGED <<wfvars, train>>

TutNext ==
    \/ CallH
    \/ CallResidualPde
    \/ CallResidualBoundary
    \/ CallPdeConditionLoss
    \/ CallInitialConditionLoss
    \/ CallBoundaryConditionLoss
    \/ CallPoints

TutorialSpec == Init /\ [][TutNext]_vars

(***************************************************************************)
(* Properties of the packaging workflow.                                   *)
(***************************************************************************)
ReleasePublished == [name |-> "release", action |-> "published"]
ManualDispatch == [name |-> "workflow_dispatch", action |-> "none"]

\* The publish step of the current run has been executed.
PublishExecuted == step["upload_pypi"] = 3

\* The current run has uploaded a non-empty artifact under this name.
Uploaded(name) == \E a \in Artifacts(name, runId) : a.files # {}

BothUploaded == Uploaded(SdistArtifactName) /\ Uploaded(WheelArtifactName(MatrixOs[1]))

\* Files of the current run on the package index.
PublishedThisRun == {f \in index : f.run = runId}

BuildFailed == \E j \in BuildJobs : job[j] = "failure"

\* C1: the publish step is executed only in a run triggered by a release
\* event with action published; a run started by workflow_dispatch builds
\* and uploads the artifacts (when its build jobs succeed) and never
\* publishes.
C1_PublishOnlyOnPublishedRelease ==
    /\ PublishExecuted => trigger = ReleasePublished
    /\ PublishedThisRun # {} => trigger = ReleasePublished
    /\ trigger = ManualDispatch =>
          /\ job["upload_pypi"] \in {"queued", "skipped"}
          /\ ~PublishExecuted
          /\ (\A j \in BuildJobs : job[j] = "success") => BothUploaded

C1_Witness ==
    /\ trigger = ManualDispatch
    /\ RunConcluded
    /\ \A j \in BuildJobs : job[j] = "success"
    /\ BothUploaded
    /\ job["upload_pypi"] = "skipped"

\* C2: build_wheels and build_sdist run in any interleaving, and in every
\* interleaving upload_pypi starts only after both have finished, so the
\* publish step never runs before both artifacts have been uploaded.
C2_UploadAfterBothBuilds ==
    /\ job["upload_pypi"] \in {"in_progress", "success", "failure"} =>
          /\ \A j \in BuildJobs : job[j] = "success" /\ step[j] = NumSteps(j)
          /\ BothUploaded
    /\ PublishExecuted => BothUploaded

C2_Witness ==
    /\ job["upload_pypi"] = "in_progress"
    /\ step["upload_pypi"] = 0
    /\ BothUploaded

\* C3: in a run triggered by a published release, the publish step sends
\* exactly the sdist built by build_sdist and the wheel built by
\* build_wheels of that same run: every name upload_pypi downloads was
\* uploaded by a build job of the run after its build step, and nothing
\* else is placed in dist.
C3_PublishesThisRunsBuilds ==
    /\ \A s \in 1..2 : step["upload_pypi"] >= s => Uploaded(DownloadNames[s])
    /\ \A f \in dist["upload_pypi"] :
          /\ f.run = runId
          /\ \/ f \in dist["build_sdist"] /\ f.kind = "sdist" /\ step["build_sdist"] >= 4
             \/ f \in dist["build_wheels"] /\ f.kind = "wheel" /\ step["build_wheels"] >= 4
    /\ PublishExecuted =>
          /\ dist["upload_pypi"] = dist["build_sdist"] \cup dist["build_wheels"]
          /\ PublishedThisRun = dist["upload_pypi"]
          /\ Cardinality(dist["upload_pypi"]) = 2

C3_Witness ==
    /\ PublishExecuted
    /\ runId = 2
    /\ \E a \in store : a.run = 1
    /\ Cardinality(PublishedThisRun) = 2

\* C4: every run builds a wheel for each configured interpreter version
\* (cp37, cp38, cp39, cp310) and one source distribution.
C4_WheelPerConfiguredVersion ==
    (\A j \in BuildJobs : job[j] = "success") =>
        /\ \A id \in CIBW_BUILD :
              \E f \in dist["build_wheels"] : f.kind = "wheel" /\ f.tag = id
        /\ Cardinality({f \in dist["build_sdist"] : f.kind = "sdist"}) = 1

\* C5: a run is started only by a manual dispatch or by a release event of
\* type published; no other event starts a run.
C5_OnlyDispatchOrPublishedRelease ==
    /\ runId > 0 => trigger \in {ManualDispatch, ReleasePublished}
    /\ event \in Events \ {ManualDispatch, ReleasePublished} => trigger # event
    /\ runId = 0 => trigger = NoEvent /\ \A j \in Jobs : step[j] = 0

C5_Witness ==
    /\ event = [name |-> "release", action |-> "created"]
    /\ runId = 0

\* C6: in a run triggered by a published release whose build jobs do not
\* fail, the publish step is eventually executed; when build_wheels or
\* build_sdist fails, upload_pypi does not run and the run publishes nothing.
C6_PublishEventuallyUnlessBuildFails ==
    /\ [](BuildFailed =>
            /\ job["upload_pypi"] \in {"queued", "skipped"}
            /\ ~PublishExecuted
            /\ PublishedThisRun = {})
    /\ \A r \in 1..MaxRuns :
          (runId = r /\ trigger = ReleasePublished)
              ~> (runId = r /\ (PublishExecuted \/ BuildFailed))

C6_Witness ==
    /\ trigger = ReleasePublished
    /\ job["upload_pypi"] = "success"
    /\ PublishedThisRun # {}

(***************************************************************************)
(* Properties of the tutorial's functions.                                 *)
(***************************************************************************)
CalledH == last.fn = "h"
CalledPde == last.fn = "residual_pde_condition"
CalledBoundary == last.fn = "residual_boundary_condition"

\* x lies on the heater [1,3] x {4}.
OnHeater(p) ==
    /\ p[2] = Omega_height * XDen
    /\ 1 * XDen <= p[1]
    /\ p[1] <= 3 * XDen

\* C7: at every sampled boundary point, residual_boundary_condition returns
\* the Dirichlet residual u - h(t) when x lies on the heater [1,3] x {4} and
\* the Neumann residual (the normal derivative) elsewhere on the boundary;
\* the mask selects exactly the heater points among boundary points.
C7_BoundaryResidualByHeater ==
    CalledBoundary =>
        \A i \in DOMAIN last.x :
            /\ last.mask[i] <=> OnHeater(last.x[i])
            /\ OnHeater(last.x[i]) => last.out[i] = last.u[i] - h(last.t)[i]
            /\ ~OnHeater(last.x[i]) => last.out[i] = last.dn[i]

C7_Witness ==
    /\ CalledBoundary
    /\ OnHeater(last.x[1])
    /\ last.out[1] # last.dn[1]
    /\ last.out[1] = last.u[1] - u_heater_max * HDen

\* C8: for every t in [0, 20]: h(0) = u_0; h(t) = u_0 + (u_heater_max -
\* u_0)/t_heater_max * t for t <= t_heater_max; h(t) = u_heater_max for
\* t > t_heater_max; h is non-decreasing, has no jump at t_heater_max and
\* u_0 <= h(t) <= u_heater_max.
C8_HeaterTemperature ==
    CalledH =>
        /\ \A i \in DOMAIN last.t :
              /\ last.t[i] = 0 => last.out[i] = u_0 * HDen
              /\ last.t[i] <= t_heater_max * TDen =>
                    t_heater_max * TDen * (last.out[i] - u_0 * HDen)
                        = (u_heater_max - u_0) * last.t[i] * HDen
              /\ last.t[i] > t_heater_max * TDen => last.out[i] = u_heater_max * HDen
              /\ last.t[i] = t_heater_max * TDen => last.out[i] = u_heater_max * HDen
              /\ u_0 * HDen <= last.out[i]
              /\ last.out[i] <= u_heater_max * HDen
        /\ \A i, j \in DOMAIN last.t :
              last.t[i] <= last.t[j] => last.out[i] <= last.out[j]

C8_Witness ==
    /\ CalledH
    /\ last.t[1] = t_heater_max * TDen
    /\ last.t[2] > t_heater_max * TDen
    /\ last.out[1] = last.out[2]

\* C9: residual_pde_condition is zero at a point exactly when the time
\* derivative of u equals the Laplacian of u there.
C9_PdeResidualZeroIffHeatEquation ==
    CalledPde =>
        \A i \in DOMAIN last.out : (last.out[i] = 0) <=> (last.ut[i] = last.lap[i])

C9_Witness ==
    /\ CalledPde
    /\ last.out[1] = 0
    /\ last.ut[1] # 0

CalledPdeLoss == last.fn = "pde_condition"
CalledInitialLoss == last.fn = "initial_condition"
CalledBoundaryLoss == last.fn = "boundary_condition"

\* The sum of f[i]^2 over the rows i with keep[i].
RECURSIVE SumSquaresWhere(_, _)
SumSquaresWhere(f, keep) ==
    IF f = <<>> THEN 0
    ELSE (IF keep[1] THEN f[1] * f[1] ELSE 0) + SumSquaresWhere(Tail(f), Tail(keep))

\* The terms of the objective of the PINN recall at the sampled points.
RecallInitialTerm ==
    SumSquaresWhere([i \in DOMAIN last.u |-> last.u[i] - u_0 * HDen],
                    [i \in DOMAIN last.u |-> TRUE])

RecallDirichletTerm ==
    SumSquaresWhere([i \in DOMAIN last.u |-> last.u[i] - h(last.t)[i]],
                    [i \in DOMAIN last.u |-> OnHeater(last.x[i])])

RecallNeumannTerm ==
    SumSquaresWhere(last.dn, [i \in DOMAIN last.u |-> ~OnHeater(last.x[i])])

\* R_1 as the recall writes it, u - Laplacian u.
RecallPdeTermAsWritten ==
    SumSquaresWhere([i \in DOMAIN last.u |-> last.u[i] - last.lap[i]],
                    [i \in DOMAIN last.u |-> TRUE])

\* R_1 as the residual of the heat equation, du/dt - Laplacian u.
RecallPdeTermHeatEquation ==
    SumSquaresWhere([i \in DOMAIN last.u |-> last.ut[i] - last.lap[i]],
                    [i \in DOMAIN last.u |-> TRUE])

\* Every boundary sample is counted in exactly one of the two boundary sums.
BoundarySamplesPartitioned ==
    \A i \in DOMAIN last.x : heater_location(last.x)[i] <=> OnHeater(last.x[i])

BoundaryTermSplits ==
    CalledBoundaryLoss =>
        /\ last.loss = RecallDirichletTerm + RecallNeumannTerm
        /\ BoundarySamplesPartitioned

CalledPoints == last.fn = "Points"

\* The spatial grid and the time the tensor was built from.
IsGridPoint(x) ==
    /\ Len(x) = 2
    /\ \E i \in DOMAIN x_coords : x[1] = x_coords[i]
    /\ \E j \in DOMAIN y_coords : x[2] = y_coords[j]

IsEvalTime(t) == t = << EvalTime * GridDen >>

IsSpatialCoordinate(t) ==
    /\ Len(t) = 1
    /\ \E i \in DOMAIN x_coords : t[1] = x_coords[i]

\* C14: Points(tensors, space=X*T) gives columns 0-1 to x and column 2 to t,
\* so x is the grid point and t the time 6 of every row; with T*X the same
\* tensor gives another assignment, in which t is a spatial coordinate.
C14_ColumnsInFactorOrder ==
    CalledPoints =>
       /\ last.space = SpaceProduct(X, T) =>
             \A r \in GridRows :
                /\ last.points["x"][r] = << tensors[r][1], tensors[r][2] >>
                /\ last.points["t"][r] = << tensors[r][3] >>
                /\ IsGridPoint(last.points["x"][r])
                /\ IsEvalTime(last.points["t"][r])
       /\ last.space = SpaceProduct(T, X) =>
             /\ last.points # Points(tensors, SpaceProduct(X, T))
             /\ \A r \in GridRows :
                   /\ last.points["t"][r] = << tensors[r][1] >>
                   /\ IsSpatialCoordinate(last.points["t"][r])
                   /\ ~IsEvalTime(last.points["t"][r])

C14_Witness ==
    /\ CalledPoints
    /\ last.space = SpaceProduct(T, X)
    /\ \E r \in GridRows : last.points["t"][r] = << Omega_width * GridDen >>

(***************************************************************************)
(* Part III: training.  trainer.fit(solver) performs optimisation steps    *)
(* until max_steps; in each step every condition of the solver samples     *)
(* points, evaluates the model, computes residual and loss and hands the   *)
(* loss to the optimizer.                                                  *)
(***************************************************************************)
\* pl.Trainer(max_steps=...)
PinnMaxSteps == 5000
AdamMaxSteps == 2500
LbfgsMaxSteps == 1000

MaxSteps(fit) ==
    CASE fit = "pinn" -> PinnMaxSteps
      [] fit = "drm_adam" -> AdamMaxSteps
      [] fit = "drm_lbfgs" -> LbfgsMaxSteps
      [] OTHER -> 0

\* The fit loop goes on while fewer than max_steps steps have been done.
StepsLeftInclusive(tr) == tr.global_step <= MaxSteps(tr.fit)

StepsLeft(tr) == tr.global_step < MaxSteps(tr.fit)

\* optimizer_args={'max_iter': 2, ...}: LBFGS evaluates its closure (the
\* conditions' losses) up to max_iter times in one step, Adam once.
LbfgsMaxIter == 2

ClosureEvaluations(fit) == IF fit = "drm_lbfgs" THEN LbfgsMaxIter ELSE 1

\* pde_sampler.make_static(resample_interval=30)
ResampleInterval == 30

\* tp.samplers.RandomUniformSampler: new points at every call.
RandomUniformSampler == [kind |-> "random"]

\* A static sampler keeps the points its inner sampler created and hands
\* them out again; with a resample interval it asks for new ones at every
\* interval-th call.
StaticSampler(inner, periodic, interval) ==
    [kind |-> "static", inner |-> inner, periodic |-> periodic, interval |-> interval,
     counter |-> 0, created |-> 0]

\* sampler.make_static(): never resampled.
MakeStatic(sampler) == StaticSampler(sampler, FALSE, 0)

\* sampler.make_static(resample_interval=n)
MakeStaticWithInterval(sampler, n) == StaticSampler(sampler, TRUE, n)

\* The call counter of a static sampler is read only as its remainder by
\* the resample interval, and kept as that.
Counted(sampler, count) == IF sampler.periodic THEN count % sampler.interval ELSE 0

\* One call of a sampler; fresh is the point set a random draw would give.
\* The result is the point set handed out and the sampler after the call.
RECURSIVE SamplePoints(_, _)
SamplePoints(sampler, fresh) ==
    IF sampler.kind = "random"
    THEN [points |-> fresh, sampler |-> sampler]
    ELSE LET count == sampler.counter + 1
             renew == \/ sampler.created = 0
                      \/ sampler.periodic /\ count % sampler.interval = 0
             inner == SamplePoints(sampler.inner, fresh)
         IN  IF renew
             THEN [points |-> inner.points,
                   sampler |-> [sampler EXCEPT !.counter = Counted(sampler, count),
                                               !.created = inner.points,
                                               !.inner = inner.sampler]]
             ELSE [points |-> sampler.created,
                   sampler |-> [sampler EXCEPT !.counter = Counted(sampler, count)]]

\* solver = Solver(train_conditions=[bound_cond, pde_cond], ...)
DrmConditions == <<"bound_cond", "pde_cond">>

\* bound_sampler = RandomUniformSampler(square.boundary, ...) (make_static
\* is commented out); pde_sampler = RandomUniformSampler(square, ...)
\* .make_static(resample_interval=30)
DrmSamplers ==
    << RandomUniformSampler,
       MakeStaticWithInterval(RandomUniformSampler, ResampleInterval) >>

\* bound_cond.sampler = bound_cond.sampler.make_static()
\* pde_cond.sampler = pde_cond.sampler.make_static()
LbfgsSamplerUnchanged(sampler) == sampler

LbfgsSampler(sampler) == MakeStatic(sampler)

NoPassed == [c \in DOMAIN DrmConditions |-> NoData]

\* The first trainer.fit(solver) of the DeepRitz notebook (Adam).
StartDrmAdam ==
    /\ train.fit = "none"
    /\ train' = [TrainInit EXCEPT !.fit = "drm_adam", !.status = "fitting",
                                  !.sampler = DrmSamplers, !.passed = NoPassed,
                                  !.first = NoPassed]
    /\ UNCHANGED <<wfvars, last>>

\* The second cell: both samplers made static, a new solver and trainer,
\* trainer.fit(solver) with LBFGS.
StartDrmLbfgs ==
    /\ train.fit = "drm_adam"
    /\ train.status = "finished"
    /\ train' = [train EXCEPT !.fit = "drm_lbfgs", !.status = "fitting",
                              !.global_step = 0, !.evals = 0, !.cond = 1, !.act = 0,
                              !.sampler = [c \in DOMAIN DrmConditions |->
                                              LbfgsSampler(train.sampler[c])],
                              !.passed = NoPassed, !.first = NoPassed]
    /\ UNCHANGED <<wfvars, last>>

\* The condition at work has finished n of its five actions in this step.
CondAt(n) ==
    /\ train.status = "fitting"
    /\ StepsLeft(train)
    /\ train.cond \in DOMAIN DrmConditions
    /\ train.act = n

\* 1) Sample points with the given sampler
CondSample ==
    /\ CondAt(0)
    /\ \E fresh \in 1..NPointSets :
          LET r == SamplePoints(train.sampler[train.cond], fresh)
              pts == [set |-> r.points, step |-> train.global_step, fit |-> train.fit]
          IN  train' = [train EXCEPT !.act = 1,
                                     !.sampler[train.cond] = r.sampler,
                                     !.points = pts,
                                     !.first[train.cond] =
                                        IF train.global_step = 0 /\ train.evals = 0
                                        THEN pts ELSE @]
    /\ UNCHANGED <<wfvars, last>>

\* 2) Evaluate model at these points
EvaluatedAt(tr) == tr.points

CondEvaluate ==
    /\ CondAt(1)
    /\ train' = [train EXCEPT !.act = 2, !.evaluated = EvaluatedAt(train)]
    /\ UNCHANGED <<wfvars, last>>

\* 3) Plug points and model output into the given residual
ResidualOf(tr) == tr.evaluated

CondResidual ==
    /\ CondAt(2)
    /\ train' = [train EXCEPT !.act = 3, !.residual = ResidualOf(train)]
    /\ UNCHANGED <<wfvars, last>>

\* 4) Compute corresponding loss term
LossOfStale(tr) == tr.loss

LossOf(tr) == tr.residual

CondLoss ==
    /\ CondAt(3)
    /\ train' = [train EXCEPT !.act = 4, !.loss = LossOf(train)]
    /\ UNCHANGED <<wfvars, last>>

\* 5) Pass loss to the optimizer; the next condition of the list follows.
CondPass ==
    /\ CondAt(4)
    /\ train' = [train EXCEPT !.act = 0, !.cond = @ + 1,
                              !.passed[train.cond] = train.loss]
    /\ UNCHANGED <<wfvars, last>>

\* The optimizer has the loss of every condition.
ClosureDone ==
    /\ train.status = "fitting"
    /\ StepsLeft(train)
    /\ train.cond = Len(DrmConditions) + 1

\* The optimizer evaluates its closure once more within the step.
ClosureAgain ==
    /\ ClosureDone
    /\ train.evals + 1 < ClosureEvaluations(train.fit)
    /\ train' = [train EXCEPT !.evals = @ + 1, !.cond = 1, !.act = 0]
    /\ UNCHANGED <<wfvars, last>>

\* One optimisation step is done.
OptimizerStep ==
    /\ ClosureDone
    /\ train' = [train EXCEPT !.global_step = @ + 1, !.evals = 0, !.cond = 1, !.act = 0]
    /\ UNCHANGED <<wfvars, last>>

\* trainer.fit returns once max_steps steps are done.
FitReturns ==
    /\ train.status = "fitting"
    /\ ~StepsLeft(train)
    /\ train' = [train EXCEPT !.status = "finished"]
    /\ UNCHANGED <<wfvars, last>>

ConditionStep ==
    \/ CondSample
    \/ CondEvaluate
    \/ CondResidual
    \/ CondLoss
    \/ CondPass

TrainNext ==
    \/ StartDrmAdam
    \/ StartDrmLbfgs
    \/ ConditionStep
    \/ ClosureAgain
    \/ OptimizerStep
    \/ FitReturns

TrainSpec == Init /\ [][TrainNext]_vars

\* trainer.fit(solver) seen from outside: which fit runs and how many
\* optimisation steps it has done.  TrainSpec splits a step of the DeepRitz
\* fits into the actions of the conditions.
Fits == {"pinn", "drm_adam", "drm_lbfgs"}

\* The PINN notebook has one fit; in the DeepRitz notebook the LBFGS fit
\* follows the Adam fit.
MayStart(fit) ==
    CASE fit = "drm_lbfgs" -> train.fit = "drm_adam" /\ train.status = "finished"
      [] OTHER -> train.fit = "none"

StartFit ==
    /\ \E fit \in Fits :
          /\ MayStart(fit)
          /\ train' = [train EXCEPT !.fit = fit, !.status = "fitting", !.global_step = 0]
    /\ UNCHANGED <<wfvars, last>>

\* One whole optimisation step of the running fit.
TrainingStep ==
    /\ train.status = "fitting"
    /\ StepsLeft(train)
    /\ train' = [train EXCEPT !.global_step = @ + 1]
    /\ UNCHANGED <<wfvars, last>>

FitNext ==
    \/ StartFit
    \/ TrainingStep
    \/ FitReturns

FitSpec == Init /\ [][FitNext]_vars

\* A step that has begun ends, and fit returns when no step is left.
FairFitSpec == FitSpec /\ WF_vars(TrainingStep) /\ WF_vars(FitReturns)

(***************************************************************************)
(* Properties of the training loop.                                        *)
(***************************************************************************)
Fitting == train.status = "fitting"

\* The data of this evaluation: produced in the current step of the
\* current fit.
OfThisStep(d) == d.step = train.global_step /\ d.fit = train.fit

\* Every action of the condition at work used the result of the one before.
PipelineInOrder ==
    Fitting /\ train.cond \in DOMAIN DrmConditions =>
       /\ train.act >= 1 => OfThisStep(train.points)
       /\ train.act >= 2 => train.evaluated = train.points
       /\ train.act >= 3 => train.residual = train.evaluated
       /\ train.act >= 4 => train.loss = train.residual

\* The losses the optimizer holds for this evaluation come from points
\* sampled in this step.
PassedLossesOfThisStep ==
    Fitting =>
       \A c \in DOMAIN DrmConditions :
          c < train.cond => OfThisStep(train.passed[c])

\* A condition's position moves one action at a time and the loss is handed
\* over only after the fourth action.
OneActionAtATime ==
    Fitting /\ train'.status = train.status /\ train'.fit = train.fit /\ train.cond \in DOMAIN DrmConditions
       /\ train' # train =>
          \/ train'.cond = train.cond /\ train'.act = train.act + 1
          \/ /\ train.act = 4
             /\ train'.act = 0
             /\ train'.cond = train.cond + 1
             /\ train'.passed[train.cond] = train.loss

InLbfgsPhase == train.fit = "drm_lbfgs"

\* C13: in the LBFGS phase, after both samplers were replaced by
\* sampler.make_static(), every step evaluates each condition on the point
\* set of the first step of the phase, the pde condition included.
C13_LbfgsPointsNeverChange ==
    InLbfgsPhase =>
       /\ train.cond \in DOMAIN DrmConditions /\ train.act >= 1
             => train.points.set = train.first[train.cond].set
       /\ \A c \in DOMAIN DrmConditions :
             c < train.cond => train.passed[c].set = train.first[c].set

C13_Witness ==
    /\ InLbfgsPhase
    /\ train.global_step = 2 * ResampleInterval
    /\ train.cond = Len(DrmConditions) + 1
    /\ \A c \in DOMAIN DrmConditions :
          train.passed[c].set = train.first[c].set /\ train.passed[c].set # 0

FitFinished == train.status = "finished"

\* C20: every trainer.fit(solver) call terminates, and the number of
\* completed optimisation steps never exceeds the configured max_steps
\* (5000 for the PINN fit, 2500 for Adam and 1000 for LBFGS).
C20_FitStopsAtMaxSteps ==
    /\ [](train.fit \in Fits => train.global_step <= MaxSteps(train.fit))
    /\ \A fit \in Fits : (Fitting /\ train.fit = fit) ~> (FitFinished /\ train.fit = fit)

C20_Witness ==
    /\ FitFinished
    /\ train.fit = "drm_lbfgs"
    /\ train.global_step = LbfgsMaxSteps

(***************************************************************************)
(* Part IV: domains.  A domain is built from basic domains (Interval,      *)
(* Parallelogram, Circle) by union, intersection, cut and Cartesian        *)
(* product; .boundary gives the boundary of a domain.                      *)
(* Coordinates are integers; a point gives every variable of its space a   *)
(* tuple of coordinates.                                                   *)
(***************************************************************************)
\* Number of operations applied after a basic domain was created.
MaxOps == 2

\* The points tested lie on the integer grid of this half-width around the
\* origin (space variables of dimension 2) ...
GridHalf == 1

\* ... and this far beyond both ends of the interval (dimension 1).
GridMargin == 1

Interval(space, lower_bound, upper_bound) ==
    [kind |-> "Interval", space |-> space, lower |-> lower_bound, upper |-> upper_bound]

Parallelogram(space, origin, corner_1, corner_2) ==
    [kind |-> "Parallelogram", space |-> space, origin |-> origin,
     corner_1 |-> corner_1, corner_2 |-> corner_2]

Circle(space, center, radius) ==
    [kind |-> "Circle", space |-> space, center |-> center, radius |-> radius]

\* T = tp.spaces.R1('t'); I = tp.domains.Interval(T, 0, 5)
I_in_X == Interval(X, 0, 5)

I == Interval(T, 0, 5)

\* X = tp.spaces.R2('x'); R = tp.domains.Parallelogram(X, [0, 0], [1, 0], [0, 1])
R == Parallelogram(X, <<0, 0>>, <<1, 0>>, <<0, 1>>)

\* C = tp.domains.Circle(X, [0, 0], 1)
C == Circle(X, <<0, 0>>, 1)

BasicDomains == {I, R, C}

BasicKinds == {"Interval", "Parallelogram", "Circle"}

OperationKinds == {"Union", "Intersection", "Cut", "Product"}

\* What an operation that raises leaves behind: no domain.
NoDomain == [kind |-> "Error"]

IsBoundary(d) == d.kind = "Boundary"

\* The objects that are domains: basic domains, results of operations and
\* boundaries.
IsDomain(d) == d.kind \in BasicKinds \cup OperationKinds \cup {"Boundary"}

\* domain.space
RECURSIVE SpaceOf(_)
SpaceOf(d) ==
    CASE d.kind \in BasicKinds -> d.space
      [] d.kind = "Product" -> SpaceProduct(SpaceOf(d.domain_a), SpaceOf(d.domain_b))
      [] d.kind = "Boundary" -> SpaceOf(d.domain)
      [] OTHER -> SpaceOf(d.domain_a)

Variables(space) == {space[n].name : n \in DOMAIN space}

\* a x b for vectors of the plane
Cross(a, b) == a[1] * b[2] - a[2] * b[1]

Minus(a, b) == <<a[1] - b[1], a[2] - b[2]>>

\* point in domain, for the point's coordinates x of the domain's variable
ContainsInterval(d, x) == d.lower <= x[1] /\ x[1] <= d.upper

ContainsCircle(d, x) ==
    LET v == Minus(x, d.center)
    IN  v[1] * v[1] + v[2] * v[2] <= d.radius * d.radius

\* x = origin + a (corner_1 - origin) + b (corner_2 - origin), 0 <= a, b <= 1
ContainsParallelogram(d, x) ==
    LET e1 == Minus(d.corner_1, d.origin)
        e2 == Minus(d.corner_2, d.origin)
        det == Cross(e1, e2)
        a == Cross(Minus(x, d.origin), e2)
        b == Cross(e1, Minus(x, d.origin))
    IN  IF det > 0
        THEN 0 <= a /\ a <= det /\ 0 <= b /\ b <= det
        ELSE det <= a /\ a <= 0 /\ det <= b /\ b <= 0

\* domain.__contains__(point); boundaries are not asked here.
RECURSIVE Contains(_, _)
Contains(d, p) ==
    CASE d.kind = "Interval" -> ContainsInterval(d, p[d.space[1].name])
      [] d.kind = "Circle" -> ContainsCircle(d, p[d.space[1].name])
      [] d.kind = "Parallelogram" -> ContainsParallelogram(d, p[d.space[1].name])
      [] d.kind = "Union" -> Contains(d.domain_a, p) \/ Contains(d.domain_b, p)
      [] d.kind = "Intersection" -> Contains(d.domain_a, p) /\ Contains(d.domain_b, p)
      [] d.kind = "Cut" -> Contains(d.domain_a, p) /\ ~Contains(d.domain_b, p)
      [] d.kind = "Product" -> Contains(d.domain_a, p) /\ Contains(d.domain_b, p)

\* The methods and properties an object offers.
DomainMethods == {"__contains__", "volume", "set_volume", "bounding_box", "boundary"}

MethodsOfBasicOnly(d) == IF d.kind \in BasicKinds THEN DomainMethods ELSE {}

MethodsOf(d) == IF IsDomain(d) THEN DomainMethods ELSE {}

\* domain.boundary: a domain again, but a boundary has none.
BoundaryOf(d) ==
    IF IsBoundary(d) \/ ~IsDomain(d) THEN NoDomain
    ELSE [kind |-> "Boundary", domain |-> d]

\* A + B, A & B, A - B: both domains have to belong to the same space.
SameSpaceOperation(kind, A, B) ==
    IF SpaceOf(A) # SpaceOf(B) THEN NoDomain
    ELSE [kind |-> kind, domain_a |-> A, domain_b |-> B]

Add(A, B) == SameSpaceOperation("Union", A, B)

And(A, B) == SameSpaceOperation("Intersection", A, B)

Sub(A, B) == SameSpaceOperation("Cut", A, B)

\* A * B lies in the product of the spaces.
Mul(A, B) == [kind |-> "Product", domain_a |-> A, domain_b |-> B]

Operate(op, A, B) ==
    CASE op = "+" -> Add(A, B)
      [] op = "&" -> And(A, B)
      [] op = "-" -> Sub(A, B)
      [] op = "*" -> Mul(A, B)

\* R_bound = R.boundary; C_bound = C.boundary
R_bound_is_R == R

R_bound == BoundaryOf(R)

C_bound == BoundaryOf(C)

\* union_domain = R + C; intersection_domain = R & C; cut_domain = R - C
union_domain_as_cut == Sub(R, C)

union_domain == Add(R, C)

intersection_domain == And(R, C)

cut_domain == Sub(R, C)

\* cylinder = C * I
cylinder_time_first == Mul(I, C)

cylinder == Mul(C, I)

\* Omega = Parallelogram(X, [0,0], [5,0], [0,4]); I = Interval(T, 0, 20);
\* domain_pde_condition = Omega * I
Omega == Parallelogram(X, <<0, 0>>, <<Omega_width, 0>>, <<0, Omega_height>>)

domain_pde_condition == Mul(Omega, Interval(T, 0, I_upper))

\* The result of the last statement on domains.
DomainResult(op, A, B, obj, ops) ==
    [fn |-> "domain", op |-> op, left |-> A, right |-> B, obj |-> obj, ops |-> ops]

HasDomain == last.fn = "domain" /\ IsDomain(last.obj)

\* The operations are applied to domains that are not boundaries, with a
\* basic domain as the other operand, on either side.
MayOperate == HasDomain /\ ~IsBoundary(last.obj) /\ last.ops < MaxOps

Operands == { <<last.obj, B>> : B \in BasicDomains } \cup { <<B, last.obj>> : B \in BasicDomains }

Apply(op, A, B) ==
    last' = DomainResult(op, A, B, Operate(op, A, B), last.ops + 1)

CreateDomain ==
    /\ Idle
    /\ \E d \in BasicDomains : last' = DomainResult("create", d, d, d, 0)
    /\ UNCHANGED <<wfvars, train>>

Union ==
    /\ MayOperate
    /\ \E ab \in Operands : Apply("+", ab[1], ab[2])
    /\ UNCHANGED <<wfvars, train>>

Intersection ==
    /\ MayOperate
    /\ \E ab \in Operands : Apply("&", ab[1], ab[2])
    /\ UNCHANGED <<wfvars, train>>

Cut ==
    /\ MayOperate
    /\ \E ab \in Operands : Apply("-", ab[1], ab[2])
    /\ UNCHANGED <<wfvars, train>>

\* In the notebooks the factors of a product have no variable in common.
Product ==
    /\ MayOperate
    /\ \E ab \in Operands :
          /\ Variables(SpaceOf(ab[1])) \cap Variables(SpaceOf(ab[2])) = {}
          /\ Apply("*", ab[1], ab[2])
    /\ UNCHANGED <<wfvars, train>>

Boundary ==
    /\ HasDomain
    /\ last' = DomainResult("boundary", last.obj, last.obj, BoundaryOf(last.obj), last.ops)
    /\ UNCHANGED <<wfvars, train>>

DomainNext ==
    \/ CreateDomain
    \/ Union
    \/ Intersection
    \/ Cut
    \/ Product
    \/ Boundary

DomainSpec == Init /\ [][DomainNext]_vars

(***************************************************************************)
(* Properties of the domains.                                              *)
(***************************************************************************)
\* The coordinates tested for a variable of a space.
Coordinates(variable) ==
    IF variable.dim = 1
    THEN { <<t>> : t \in (I.lower - GridMargin)..(I.upper + GridMargin) }
    ELSE { <<a, b>> : a, b \in (0 - GridHalf)..GridHalf }

\* The points of a space: every variable gets coordinates.
RECURSIVE PointsOf(_)
PointsOf(space) ==
    IF space = <<>> THEN { <<>> }
    ELSE { (space[1].name :> c) @@ q :
              c \in Coordinates(space[1]), q \in PointsOf(Tail(space)) }

\* The unit square, the unit disc and the interval [0, 5], said directly.
InUnitSquare(x) == 0 <= x[1] /\ x[1] <= 1 /\ 0 <= x[2] /\ x[2] <= 1

InUnitDisc(x) == x[1] * x[1] + x[2] * x[2] <= 1

InZeroToFive(t) == 0 <= t[1] /\ t[1] <= 5

Applied(op) == last.fn = "domain" /\ last.op = op

InLeft(p) == Contains(last.left, p)

InRight(p) == Contains(last.right, p)

ResultPoints == PointsOf(SpaceOf(last.obj))

\* C15: for domains A and B of one space and every point p of it, p lies in
\* A + B iff p lies in A or in B, in A & B iff it lies in both, and in A - B
\* iff it lies in A and not in B; so for R + C, R & C and R - C of the unit
\* square R and the unit disc C.
C15_UnionIntersectionCut ==
    HasDomain =>
       /\ Applied("+") => \A p \in ResultPoints :
             Contains(last.obj, p) <=> (InLeft(p) \/ InRight(p))
       /\ Applied("&") => \A p \in ResultPoints :
             Contains(last.obj, p) <=> (InLeft(p) /\ InRight(p))
       /\ Applied("-") => \A p \in ResultPoints :
             Contains(last.obj, p) <=> (InLeft(p) /\ ~InRight(p))
       /\ last.obj = union_domain => \A p \in ResultPoints :
             Contains(last.obj, p) <=> (InUnitSquare(p["x"]) \/ InUnitDisc(p["x"]))
       /\ last.obj = intersection_domain => \A p \in ResultPoints :
             Contains(last.obj, p) <=> (InUnitSquare(p["x"]) /\ InUnitDisc(p["x"]))
       /\ last.obj = cut_domain => \A p \in ResultPoints :
             Contains(last.obj, p) <=> (InUnitSquare(p["x"]) /\ ~InUnitDisc(p["x"]))

C15_Witness ==
    /\ HasDomain
    /\ last.obj = cut_domain
    /\ \E p, q \in ResultPoints :
          /\ Contains(R, p) /\ Contains(C, p) /\ ~Contains(last.obj, p)
          /\ Contains(R, q) /\ ~Contains(C, q) /\ Contains(last.obj, q)

\* C16: the boundary of a domain is a domain, but .boundary of a boundary
\* never yields a domain, for basic domains (R_bound, C_bound) and for
\* unions, intersections and cuts.
C16_BoundaryHasNoBoundary ==
    /\ IsDomain(R_bound) /\ ~IsDomain(BoundaryOf(R_bound))
    /\ IsDomain(C_bound) /\ ~IsDomain(BoundaryOf(C_bound))
    /\ Applied("boundary") =>
          IF IsBoundary(last.left)
          THEN ~IsDomain(last.obj)
          ELSE IsDomain(last.obj) /\ IsBoundary(last.obj)

C16_Witness ==
    /\ Applied("boundary")
    /\ IsBoundary(last.left)
    /\ last.left.domain.kind \in {"Union", "Intersection", "Cut"}
    /\ ~IsDomain(last.obj)

SameSpaceOperators == {"+", "&", "-"}

Operators == SameSpaceOperators \cup {"*"}

Accepted == last.op = "*" \/ SpaceOf(last.left) = SpaceOf(last.right)

C19_ProductOfDomains ==
    /\ SpaceOf(cylinder) = SpaceProduct(X, T)
    /\ SpaceOf(cylinder) # SpaceProduct(T, X)
    /\ SpaceOf(domain_pde_condition) = SpaceProduct(X, T)
    /\ Applied("*") =>
          /\ IsDomain(last.obj)
          /\ SpaceOf(last.obj) = SpaceProduct(SpaceOf(last.left), SpaceOf(last.right))
          /\ \A p \in ResultPoints :
                Contains(last.obj, p) <=> (InLeft(p) /\ InRight(p))
    /\ HasDomain /\ last.obj = cylinder =>
          \A p \in ResultPoints :
             Contains(last.obj, p) <=> (InUnitDisc(p["x"]) /\ InZeroToFive(p["t"]))

C19_Witness ==
    /\ Applied("*")
    /\ last.obj = cylinder
    /\ \E p, q \in ResultPoints :
          /\ Contains(last.obj, p)
          /\ InUnitDisc(q["x"]) /\ ~InZeroToFive(q["t"]) /\ ~Contains(last.obj, q)

(***************************************************************************)
(* Properties of the credential.                                           *)
(***************************************************************************)
\* The publish step: the last step of upload_pypi.
IsPublishStep(j, s) == j = "upload_pypi" /\ s = NumSteps("upload_pypi")

ReadsOfRun(r) == {rd \in cred.reads : rd.run = r}

\* Only the publish step of upload_pypi was ever given the secret.
ReadOnlyByPublish ==
    \A rd \in cred.reads :
       /\ IsPublishStep(rd.job, rd.step)
       /\ rd.job \notin BuildJobs
       /\ rd.secret = "upload_pypi"

\* A run started by hand never reads the secret.
DispatchNeverReads == trigger = ManualDispatch => ReadsOfRun(runId) = {}

\* Up to the publish step the run has not read the secret: a read of the
\* current run exists only once upload_pypi has done its last step.
NoReadBeforePublish ==
    ReadsOfRun(runId) # {} =>
       /\ trigger = ReleasePublished
       /\ step["upload_pypi"] = NumSteps("upload_pypi")
       /\ \A j \in BuildJobs : job[j] = "success"

\* A step that is not the publish step leaves the record of reads as it
\* is, whatever the value of the secret; the publish step is given the
\* value the secret has in this run; the secret is not replaced in a run.
OnlyPublishTouchesCredential ==
    /\ cred'.reads # cred.reads =>
          /\ AtStep("upload_pypi", NumSteps("upload_pypi"))
          /\ cred'.value = cred.value
          /\ \A rd \in cred'.reads \ cred.reads : rd.run = runId /\ rd.value = cred.value
    /\ cred'.value # cred.value =>
          /\ runId = 0 \/ RunConcluded
          /\ UNCHANGED <<event, trigger, runId, job, step, python, dist, store, index>>

\* C21: the credential secrets.upload_pypi is read only by the publish step
\* of upload_pypi; no step of build_wheels or build_sdist receives it, a run
\* started by manual dispatch never reads it, and up to the publish step no
\* step of a run depends on its value.
C21_CredentialReadOnlyByPublish ==
    /\ [](ReadOnlyByPublish /\ DispatchNeverReads /\ NoReadBeforePublish)
    /\ [][OnlyPublishTouchesCredential]_vars

C21_Witness ==
    /\ runId = MaxRuns
    /\ trigger = ManualDispatch
    /\ RunConcluded
    /\ cred.value = "token_b"
    /\ ReadsOfRun(runId) = {}
    /\ \E rd \in ReadsOfRun(1) : rd.value = "token_a" /\ IsPublishStep(rd.job, rd.step)

=============================================================================
